---- MODULE Spec2Model ----
(***************************************************************************)
(* Cloth simulation on a mass-spring grid (src/main.py): the mesh-index    *)
(* kernel, the mass-point initialisation, the substep kernel with its      *)
(* three parallel loops, and the per-frame driver loop.                    *)
(*                                                                         *)
(* Numbers.  The program computes in 32-bit floats.  The model keeps the   *)
(* shape of float arithmetic with a reduced width: a finite value is an    *)
(* integer count of 1/Scale units, every product, quotient and root is     *)
(* rounded to the nearest point of that grid, a magnitude above MaxVal     *)
(* overflows to an infinity, and NaN, +Inf and -Inf follow the IEEE        *)
(* rules.  The three special values are integers outside the finite range. *)
(***************************************************************************)
EXTENDS Integers, Naturals, Sequences, FiniteSets, TLC

\* ---------------------------------------------------------------- bounds
\* largest grid size n of the simulation (the program fixes n = 128)
MaxN == 2
\* largest grid size n for which the mesh-index kernel is explored
MaxMeshN == 4
\* number of rendered frames explored
MaxFrames == 2
\* largest value the substeps slider is moved to (the slider allows 10..100)
MaxSubstepEdit == 10

\* ------------------------------------------------------ float arithmetic
Scale == 1000
MaxVal == 500000000
PInf == 1000000000
NInf == -1000000000
NaN == 2000000000

IsFinite(a) == a >= -MaxVal /\ a <= MaxVal
IsInf(a) == a = PInf \/ a = NInf
IsNaN(a) == a = NaN

Abs(a) == IF a < 0 THEN -a ELSE a
Sign(a) == IF a < 0 THEN -1 ELSE IF a > 0 THEN 1 ELSE 0
Signed(s, m) == IF s < 0 THEN -m ELSE m
InfOf(s) == IF s < 0 THEN NInf ELSE PInf
Sat(z) == IF z > MaxVal THEN PInf ELSE IF z < -MaxVal THEN NInf ELSE z

\* a literal: the integer k as a float, and k/den as a float
F(k) == k * Scale
Lit(num, den) == (2 * num * Scale + den) \div (2 * den)

Neg(a) == IF a = NaN THEN NaN ELSE -a

Add(a, b) ==
    IF IsFinite(a) /\ IsFinite(b) THEN Sat(a + b)
    ELSE IF IsNaN(a) \/ IsNaN(b) THEN NaN
    ELSE IF IsInf(a) /\ IsInf(b) THEN (IF a = b THEN a ELSE NaN)
    ELSE IF IsInf(a) THEN a
    ELSE IF IsInf(b) THEN b
    ELSE Sat(a + b)

Sub(a, b) == Add(a, Neg(b))

\* magnitude of a product of two finite magnitudes, -1 on overflow
MulMag(a, b) ==
    LET ah == a \div Scale
        al == a % Scale
        bh == b \div Scale
        bl == b % Scale
    IN  IF ah > 0 /\ bh > (MaxVal \div Scale) \div ah THEN -1
        ELSE LET z == ah * bh * Scale + ah * bl + al * bh + (al * bl + Scale \div 2) \div Scale
             IN  IF z > MaxVal THEN -1 ELSE z

\* largest magnitude whose square is a machine integer
Small == 46340
IsSmall(a) == a >= -Small /\ a <= Small

\* the product of two small values, rounded to the grid
MulSmall(a, b) ==
    LET z == a * b
    IN  IF z >= 0 THEN (z + Scale \div 2) \div Scale
        ELSE -((Scale \div 2 - z) \div Scale)

Mul(a, b) ==
    IF IsSmall(a) /\ IsSmall(b) THEN MulSmall(a, b)
    ELSE IF IsNaN(a) \/ IsNaN(b) THEN NaN
    ELSE IF IsInf(a) \/ IsInf(b)
         THEN (IF a = 0 \/ b = 0 THEN NaN ELSE InfOf(Sign(a) * Sign(b)))
    ELSE LET m == MulMag(Abs(a), Abs(b))
         IN  IF m < 0 THEN InfOf(Sign(a) * Sign(b))
             ELSE Signed(Sign(a) * Sign(b), m)

\* largest divisor for which remainder * Scale stays in range
DivLimit == 2000000

RECURSIVE DivMag(_, _)
\* magnitude of a / b for finite magnitudes, b > 0; -1 on overflow
DivMag(a, b) ==
    IF b > DivLimit /\ b \div 10 > 0 THEN DivMag(a \div 10, b \div 10)
    ELSE LET q == a \div b
             r == a % b
         IN  IF q > MaxVal \div Scale THEN -1
             ELSE LET z == q * Scale + (r * Scale + b \div 2) \div b
                  IN  IF z > MaxVal THEN -1 ELSE z

Div(a, b) ==
    IF IsNaN(a) \/ IsNaN(b) THEN NaN
    ELSE IF IsInf(a) THEN (IF IsInf(b) THEN NaN
                           ELSE InfOf(Sign(a) * (IF b < 0 THEN -1 ELSE 1)))
    ELSE IF IsInf(b) THEN 0
    ELSE IF b = 0 THEN (IF a = 0 THEN NaN ELSE InfOf(Sign(a)))
    ELSE LET m == DivMag(Abs(a), Abs(b))
         IN  IF m < 0 THEN InfOf(Sign(a) * Sign(b))
             ELSE Signed(Sign(a) * Sign(b), m)

RECURSIVE ISqrtNewton(_, _)
\* floor of the square root of m > 0 by Newton's iteration from g >= sqrt(m)
ISqrtNewton(m, g) ==
    LET h == (g + m \div g) \div 2
    IN  IF h >= g THEN g ELSE ISqrtNewton(m, h)

\* the integer nearest to the square root of m
ISqrt(m) ==
    IF m = 0 THEN 0
    ELSE LET g == IF m < 100 THEN 10
                  ELSE IF m < 10000 THEN 100
                  ELSE IF m < 1000000 THEN 1000
                  ELSE IF m < 100000000 THEN 10000
                  ELSE 46340
             r == ISqrtNewton(m, g)
         IN  IF m - r * r > r THEN r + 1 ELSE r

Sqrt(a) ==
    IF IsNaN(a) THEN NaN
    ELSE IF a = PInf THEN PInf
    ELSE IF a < 0 THEN NaN
    ELSE IF a <= 2000000 THEN ISqrt(a * Scale)
    ELSE IF a <= 200000000 THEN 10 * ISqrt(a * 10)
    ELSE 100 * ISqrt(a \div 10)

\* a < b and a <= b are false when either side is NaN
Lt(a, b) == ~IsNaN(a) /\ ~IsNaN(b) /\ a < b
Le(a, b) == ~IsNaN(a) /\ ~IsNaN(b) /\ a <= b

\* min(a, b) of two floats; a NaN operand gives NaN
Min(a, b) == IF IsNaN(a) \/ IsNaN(b) THEN NaN ELSE IF a < b THEN a ELSE b

\* exp(a) for the small arguments the program uses: 1 + a + a^2/2 + a^3/6
Exp(a) ==
    LET a2 == Mul(a, a)
        a3 == Mul(a2, a)
    IN  Add(Add(Add(F(1), a), Div(a2, F(2))), Div(a3, F(6)))

\* ------------------------------------------------------------- 3-vectors
Vec(a, b, c) == <<a, b, c>>
Zero3 == Vec(0, 0, 0)
VAdd(a, b) == Vec(Add(a[1], b[1]), Add(a[2], b[2]), Add(a[3], b[3]))
VSub(a, b) == Vec(Sub(a[1], b[1]), Sub(a[2], b[2]), Sub(a[3], b[3]))
VScale(a, s) == Vec(Mul(a[1], s), Mul(a[2], s), Mul(a[3], s))
Dot(a, b) == Add(Add(Mul(a[1], b[1]), Mul(a[2], b[2])), Mul(a[3], b[3]))
Norm(a) == Sqrt(Dot(a, a))
\* Vector.normalized(): invlen = 1 / norm; invlen * self
Normalized(a) == VScale(a, Div(F(1), Norm(a)))
HasNaN(a) == IsNaN(a[1]) \/ IsNaN(a[2]) \/ IsNaN(a[3])

\* ------------------------------------------------------ program constants
\* quad_size = 1.0 / n
quad_size(nn) == Div(F(1), F(nn))
\* dt = 4e-2 / n
dt(nn) == Div(Lit(4, 100), F(nn))
\* int(1 / 60 // dt): floor division of two positive floats
DefaultSubsteps(nn) == Lit(1, 60) \div dt(nn)
Gravity == Vec(0, Lit(-98, 10), 0)
SpringYDefault == F(1000)
dashpot_damping == 10000
drag_damping == 1
BallRadiusDefault == Lit(3, 10)
ball_center == Zero3
bending_springs == FALSE
SubstepsMin == 10
SubstepsMax == 100
SpringYMax == F(30000)
BallRadiusMax == Lit(5, 10)

Points(nn) == (0 .. nn - 1) \X (0 .. nn - 1)
InGrid(j, nn) == 0 <= j[1] /\ j[1] < nn /\ 0 <= j[2] /\ j[2] < nn

\* num_triangles = (n - 1) * (n - 1) * 2
num_triangles(nn) == (nn - 1) * (nn - 1) * 2
Quads(nn) == (0 .. nn - 2) \X (0 .. nn - 2)

\* the slot with row and column exchanged
VertexSlotTransposed(i, j, nn) == j * nn + i

\* flat slot of grid cell (i, j) in vertices and colors
VertexSlot(i, j, nn) == i * nn + j

\* spring_offsets, in the order the nested loops append them
OffsetRange == IF bending_springs THEN <<-1, 0, 1>> ELSE <<-2, -1, 0, 1, 2>>
OffsetOk(i, j) ==
    IF bending_springs THEN <<i, j>> # <<0, 0>>
    ELSE <<i, j>> # <<0, 0>> /\ Abs(i) + Abs(j) <= 2
RECURSIVE OffsetsFrom(_, _)
OffsetsFrom(a, b) ==
    IF a > Len(OffsetRange) THEN <<>>
    ELSE IF b > Len(OffsetRange) THEN OffsetsFrom(a + 1, 1)
    ELSE (IF OffsetOk(OffsetRange[a], OffsetRange[b])
          THEN <<(<<OffsetRange[a], OffsetRange[b]>>)>> ELSE <<>>)
         \o OffsetsFrom(a, b + 1)
spring_offsets == OffsetsFrom(1, 1)

VARIABLES
    n,            \* grid size, fixed for the run
    pc,           \* position of the main thread
    frame,        \* number of frames started
    spring_Y, ball_radius, gravity, substeps,
    to_generate, to_reset,
    x, v,         \* position and velocity fields, indexed by (i, j)
    vertices, indices, colors,
    quadsDone,    \* quads of the first mesh loop already executed
    slotWrites,   \* history: number of writes to each slot of indices
    k, loopN,     \* iterations dispatched / length of range(substeps)
    done,         \* points whose stage-2 iteration has run in this substep
    xStart, vStart,   \* history: fields at entry of the current substep
    vSnap,        \* history: velocity field when stage 1 finished
    forceUsed,    \* history: force each stage-2 iteration applied
    vPre,         \* history: velocity after drag, before collision response
    pressedGen, pressedReset,   \* history: buttons pressed in this frame
    phases,       \* history: phases run in this frame, in order
    random_offset,   \* history: jitter sampled by the last initialisation
    generated     \* history: initialize_mass_points has run

vars == <<n, pc, frame, spring_Y, ball_radius, gravity, substeps, to_generate,
          to_reset, x, v, vertices, indices, colors, quadsDone, slotWrites,
          k, loopN, done, xStart, vStart, vSnap, forceUsed, vPre,
          pressedGen, pressedReset, phases, random_offset, generated>>

paramVars == <<spring_Y, ball_radius, gravity, substeps>>
meshVars == <<indices, colors, quadsDone, slotWrites>>
stepHist == <<xStart, vStart, vSnap, forceUsed, vPre>>
frameHist == <<pressedGen, pressedReset, phases>>

ZeroField(nn) == [p \in Points(nn) |-> Zero3]

\* the module-level state when the fields have been allocated (zero filled)
\* and before initialize_mesh_indices() is called
InitFor(nn) ==
    /\ n = nn
    /\ pc = "mesh"
    /\ frame = 0
    /\ spring_Y = SpringYDefault
    /\ ball_radius = BallRadiusDefault
    /\ gravity = Gravity
    /\ substeps = DefaultSubsteps(nn)
    /\ to_generate = FALSE
    /\ to_reset = FALSE
    /\ x = ZeroField(nn)
    /\ v = ZeroField(nn)
    /\ vertices = [s \in 0 .. nn * nn - 1 |-> Zero3]
    /\ indices = [s \in 0 .. num_triangles(nn) * 3 - 1 |-> 0]
    /\ colors = [s \in 0 .. nn * nn - 1 |-> Zero3]
    /\ quadsDone = {}
    /\ slotWrites = [s \in 0 .. num_triangles(nn) * 3 - 1 |-> 0]
    /\ k = 0
    /\ loopN = 0
    /\ done = {}
    /\ xStart = ZeroField(nn)
    /\ vStart = ZeroField(nn)
    /\ vSnap = ZeroField(nn)
    /\ forceUsed = ZeroField(nn)
    /\ vPre = ZeroField(nn)
    /\ pressedGen = FALSE
    /\ pressedReset = FALSE
    /\ phases = <<>>
    /\ random_offset = <<0, 0>>
    /\ generated = FALSE

Init == \E nn \in 2 .. MaxN : InitFor(nn)

\* ------------------------------------------- initialize_mesh_indices()
\* the quad number computed with the row length of the point grid
quad_id_points(i, j, nn) == (i * nn) + j

quad_id(i, j, nn) == (i * (nn - 1)) + j

\* the six (slot, value) writes of quad (i, j)
QuadWrites(i, j, nn) ==
    LET q == quad_id(i, j, nn)
    IN  << <<q * 6 + 0, i * nn + j>>,
           <<q * 6 + 1, (i + 1) * nn + j>>,
           <<q * 6 + 2, i * nn + (j + 1)>>,
           <<q * 6 + 3, (i + 1) * nn + j + 1>>,
           <<q * 6 + 4, i * nn + (j + 1)>>,
           <<q * 6 + 5, (i + 1) * nn + j>> >>

\* the value the iteration of quad (i, j) stores in slot s, or -1
WrittenBy(w, s) ==
    IF \E m \in 1 .. 6 : w[m][1] = s
    THEN w[CHOOSE m \in 1 .. 6 : w[m][1] = s][2]
    ELSE -1

\* one iteration of the first (parallel) loop
WriteQuad(i, j) ==
    /\ pc = "mesh"
    /\ <<i, j>> \notin quadsDone
    /\ LET w == QuadWrites(i, j, n)
       IN  /\ indices' = [s \in DOMAIN indices |->
                            IF WrittenBy(w, s) >= 0 THEN WrittenBy(w, s)
                            ELSE indices[s]]
           /\ slotWrites' = [s \in DOMAIN slotWrites |->
                            slotWrites[s]
                              + Cardinality({m \in 1 .. 6 : w[m][1] = s})]
    /\ quadsDone' = quadsDone \cup {<<i, j>>}
    /\ UNCHANGED <<n, pc, frame, paramVars, to_generate, to_reset, x, v,
                   vertices, colors, k, loopN, done, stepHist, frameHist,
                   random_offset, generated>>

CellColor(i, j) ==
    IF ((i \div 4) + (j \div 4)) % 2 = 0
    THEN Vec(Lit(9, 10), Lit(9, 10), Lit(9, 10))
    ELSE Vec(Lit(1, 10), Lit(1, 10), Lit(1, 10))

\* the second loop, entered when the first has finished; each iteration
\* writes its own slot and reads nothing another iteration writes
WriteColors ==
    /\ pc = "mesh"
    /\ quadsDone = Quads(n)
    /\ colors' = [s \in DOMAIN colors |->
                    LET c == CHOOSE p \in Points(n) :
                                 VertexSlot(p[1], p[2], n) = s
                    IN  CellColor(c[1], c[2])]
    /\ pc' = "gui"
    /\ UNCHANGED <<n, frame, paramVars, to_generate, to_reset, x, v,
                   vertices, indices, quadsDone, slotWrites, k, loopN, done,
                   stepHist, frameHist, random_offset, generated>>

\* ---------------------------------------------- initialize_mass_points()
\* values ti.random() returns, in [0, 1)
RandomSamples == {0, Lit(1, 4), Scale - 1}

\* random_offset = ti.Vector([ti.random() - 0.5, ti.random() - 0.5]) * 0.1
RandomOffset(r0, r1) ==
    << Mul(Sub(r0, Lit(1, 2)), Lit(1, 10)), Mul(Sub(r1, Lit(1, 2)), Lit(1, 10)) >>

\* the position with the first jitter component used on both axes
MassPointOneJitter(i, j, off, nn) ==
    Vec(Add(Sub(Mul(F(i), quad_size(nn)), Lit(1, 2)), off[1]),
        Lit(6, 10),
        Add(Sub(Mul(F(j), quad_size(nn)), Lit(1, 2)), off[1]))

\* the position written to x[i, j]
MassPoint(i, j, off, nn) ==
    Vec(Add(Sub(Mul(F(i), quad_size(nn)), Lit(1, 2)), off[1]),
        Lit(6, 10),
        Add(Sub(Mul(F(j), quad_size(nn)), Lit(1, 2)), off[2]))

\* the velocity written to v[i, j]
MassVelocity(i, j) == Zero3

\* ------------------------------------------------------------- substep()
Norm2(a) == Sqrt(Add(Mul(a[1], a[1]), Mul(a[2], a[2])))

\* the body of the spring loop for one offset: the force after it
SpringStep(force, i, off, xs, vs, nn, Y) ==
    LET j == <<i[1] + off[1], i[2] + off[2]>>
    IN  IF InGrid(j, nn)
        THEN LET x_ij == VSub(xs[i], xs[j])
                 v_ij == VSub(vs[i], vs[j])
                 d == Normalized(x_ij)
                 current_dist == Norm(x_ij)
                 original_dist ==
                     Mul(quad_size(nn), Norm2(<<F(i[1] - j[1]), F(i[2] - j[2])>>))
                 spring == VScale(VScale(d, Neg(Y)),
                                  Sub(Div(current_dist, original_dist), F(1)))
                 dashpot == VScale(VScale(VScale(d, Neg(Dot(v_ij, d))),
                                          F(dashpot_damping)),
                                   quad_size(nn))
             IN  VAdd(VAdd(force, spring), dashpot)
        ELSE force

RECURSIVE ForceFrom(_, _, _, _, _, _, _)
ForceFrom(m, force, i, xs, vs, nn, Y) ==
    IF m > Len(spring_offsets) THEN force
    ELSE ForceFrom(m + 1,
                   SpringStep(force, i, spring_offsets[m], xs, vs, nn, Y),
                   i, xs, vs, nn, Y)

\* force accumulated by the stage-2 iteration of point i
Force(i, xs, vs, nn, Y) == ForceFrom(1, Zero3, i, xs, vs, nn, Y)

\* the drag factor with the sign of the exponent lost
DragGrowing(vel, nn) == VScale(vel, Exp(Mul(F(drag_damping), dt(nn))))

\* v[i] *= ti.exp(-drag_damping * dt)
Drag(vel, nn) == VScale(vel, Exp(Mul(Neg(F(drag_damping)), dt(nn))))

\* the projection that removes the whole normal component, outward too
CollisionResponseTwoSided(vel, pos, radius) ==
    LET offset_to_center == VSub(pos, ball_center)
    IN  IF Le(Norm(offset_to_center), radius)
        THEN LET normal == Normalized(offset_to_center)
             IN  VSub(vel, VScale(normal, Dot(vel, normal)))
        ELSE vel

\* the velocity projection on the sphere
CollisionResponse(vel, pos, radius) ==
    LET offset_to_center == VSub(pos, ball_center)
    IN  IF Le(Norm(offset_to_center), radius)
        THEN LET normal == Normalized(offset_to_center)
             IN  VSub(vel, VScale(normal, Min(Dot(vel, normal), 0)))
        ELSE vel

\* x[i] += dt * v[i]
Integrate(pos, vel, nn) == VAdd(pos, VScale(vel, dt(nn)))

\* stage 1, the first parallel loop: every iteration touches only v[i]
SubstepGravity ==
    /\ pc = "loop"
    /\ k < loopN
    /\ k' = k + 1
    /\ xStart' = x
    /\ vStart' = v
    /\ v' = [p \in Points(n) |-> VAdd(v[p], VScale(gravity, dt(n)))]
    /\ vSnap' = v'
    /\ done' = {}
    /\ forceUsed' = ZeroField(n)
    /\ phases' = Append(phases, "substep")
    /\ pc' = "stage2"
    /\ UNCHANGED <<n, frame, paramVars, to_generate, to_reset, x, vertices,
                   meshVars, loopN, vPre, pressedGen, pressedReset,
                   random_offset, generated>>

\* stage 2, one iteration of the second parallel loop: it reads x and v of
\* the neighbours as they are now and writes v[i] in place
SpringPoint(i) ==
    /\ pc = "stage2"
    /\ i \notin done
    /\ LET force == Force(i, x, v, n, spring_Y)
       IN  /\ v' = [v EXCEPT ![i] = VAdd(v[i], VScale(force, dt(n)))]
           /\ forceUsed' = [forceUsed EXCEPT ![i] = force]
    /\ done' = done \cup {i}
    /\ UNCHANGED <<n, pc, frame, paramVars, to_generate, to_reset, x,
                   vertices, meshVars, k, loopN, xStart, vStart, vSnap, vPre,
                   frameHist, random_offset, generated>>

\* stages 3 and 4, the third parallel loop, entered when the second has
\* finished: every iteration touches only v[i] and x[i]
DragCollide ==
    /\ pc = "stage2"
    /\ done = Points(n)
    /\ vPre' = [p \in Points(n) |-> Drag(v[p], n)]
    /\ v' = [p \in Points(n) |-> CollisionResponse(vPre'[p], x[p], ball_radius)]
    /\ x' = [p \in Points(n) |-> Integrate(x[p], v'[p], n)]
    /\ pc' = "loop"
    /\ UNCHANGED <<n, frame, paramVars, to_generate, to_reset, vertices,
                   meshVars, k, loopN, done, xStart, vStart, vSnap, forceUsed,
                   frameHist, random_offset, generated>>

\* ------------------------------------------------------------ main loop
SpringYEdits == {SpringYMax}
BallRadiusEdits == {BallRadiusMax}
SubstepEdits ==
    SubstepsMin .. (IF MaxSubstepEdit < SubstepsMax THEN MaxSubstepEdit
                    ELSE SubstepsMax)

\* a button that stays set once it has been clicked
ButtonLatched(clicked, previous) == clicked \/ previous

\* gui.button(): true in the frame in which the button is clicked
Button(clicked, previous) == clicked

\* what the user does during one frame: drag one slider, click buttons,
\* or nothing
UserInputs ==
    [edit : {"none"}, reset : BOOLEAN, gen : BOOLEAN]
    \cup [edit : {"spring_Y", "substeps", "ball_radius"},
          reset : {FALSE}, gen : {FALSE}]

\* the "Parameters" sub-window: a slider returns the value it was given
\* unless the user drags it
Gui ==
    /\ pc = "gui"
    /\ frame < MaxFrames
    /\ frame' = frame + 1
    /\ \E in \in UserInputs :
         /\ IF in.edit = "spring_Y"
            THEN \E e \in SpringYEdits : spring_Y' = e
            ELSE spring_Y' = spring_Y
         /\ IF in.edit = "substeps"
            THEN \E e \in SubstepEdits : substeps' = e
            ELSE substeps' = substeps
         /\ IF in.edit = "ball_radius"
            THEN \E e \in BallRadiusEdits : ball_radius' = e
            ELSE ball_radius' = ball_radius
         /\ to_reset' = Button(in.reset, to_reset)
         /\ to_generate' = Button(in.gen, to_generate)
         /\ pressedReset' = in.reset
         /\ pressedGen' = in.gen
    /\ phases' = <<"edit">>
    /\ pc' = "generate"
    /\ UNCHANGED <<n, gravity, x, v, vertices, meshVars, k, loopN, done,
                   stepHist, random_offset, generated>>

\* if to_generate: initialize_mass_points()
Generate ==
    /\ pc = "generate"
    /\ to_generate
    /\ \E r0 \in RandomSamples, r1 \in RandomSamples :
         /\ random_offset' = RandomOffset(r0, r1)
         /\ x' = [p \in Points(n) |-> MassPoint(p[1], p[2], random_offset', n)]
    /\ v' = [p \in Points(n) |-> MassVelocity(p[1], p[2])]
    /\ generated' = TRUE
    /\ phases' = Append(phases, "init")
    /\ pc' = "reset"
    /\ UNCHANGED <<n, frame, paramVars, to_generate, to_reset, vertices,
                   meshVars, k, loopN, done, stepHist, pressedGen,
                   pressedReset>>

SkipGenerate ==
    /\ pc = "generate"
    /\ ~to_generate
    /\ pc' = "reset"
    /\ UNCHANGED <<n, frame, paramVars, to_generate, to_reset, x, v, vertices,
                   meshVars, k, loopN, done, stepHist, frameHist,
                   random_offset, generated>>

\* if to_reset: reset(); to_reset = False.  reset() assigns substeps without
\* declaring it global, so the assignment binds a local of reset() and the
\* module-level substeps keeps its value.  Then range(substeps) is evaluated.
Reset ==
    /\ pc = "reset"
    /\ to_reset
    /\ spring_Y' = SpringYDefault
    /\ ball_radius' = BallRadiusDefault
    /\ substeps' = substeps
    /\ to_reset' = FALSE
    /\ phases' = Append(phases, "reset")
    /\ k' = 0
    /\ loopN' = substeps'
    /\ pc' = "loop"
    /\ UNCHANGED <<n, frame, gravity, to_generate, x, v, vertices, meshVars,
                   done, stepHist, pressedGen, pressedReset, random_offset,
                   generated>>

SkipReset ==
    /\ pc = "reset"
    /\ ~to_reset
    /\ k' = 0
    /\ loopN' = substeps
    /\ pc' = "loop"
    /\ UNCHANGED <<n, frame, paramVars, to_generate, to_reset, x, v, vertices,
                   meshVars, done, stepHist, frameHist, random_offset,
                   generated>>

\* update_vertices(), called when the substep loop has ended
UpdateVertices ==
    /\ pc = "loop"
    /\ k >= loopN
    /\ vertices' = [s \in DOMAIN vertices |->
                      LET c == CHOOSE p \in Points(n) :
                                   VertexSlot(p[1], p[2], n) = s
                      IN  x[c]]
    /\ phases' = Append(phases, "update")
    /\ pc' = "render"
    /\ UNCHANGED <<n, frame, paramVars, to_generate, to_reset, x, v, meshVars,
                   k, loopN, done, stepHist, pressedGen, pressedReset,
                   random_offset, generated>>

\* scene.mesh(vertices, ...) ... window.show(): the renderer reads the buffers
Render ==
    /\ pc = "render"
    /\ pc' = "gui"
    /\ UNCHANGED <<n, frame, paramVars, to_generate, to_reset, x, v, vertices,
                   meshVars, k, loopN, done, stepHist, frameHist,
                   random_offset, generated>>

Next ==
    \/ \E q \in Quads(n) : WriteQuad(q[1], q[2])
    \/ WriteColors
    \/ Gui
    \/ Generate
    \/ SkipGenerate
    \/ Reset
    \/ SkipReset
    \/ SubstepGravity
    \/ \E i \in Points(n) : SpringPoint(i)
    \/ DragCollide
    \/ UpdateVertices
    \/ Render

Spec == Init /\ [][Next]_vars

\* ------------------------------------- initialize_mesh_indices() alone
\* the kernel on grids of every size up to MaxMeshN
InitMesh == \E nn \in 2 .. MaxMeshN : InitFor(nn)

NextMesh ==
    \/ \E q \in Quads(n) : WriteQuad(q[1], q[2])
    \/ WriteColors

SpecMesh == InitMesh /\ [][NextMesh]_vars

\* --------------------------------------------------- one substep() alone
\* the buffers initialize_mesh_indices() leaves
BuiltIndices(nn) ==
    [s \in 0 .. num_triangles(nn) * 3 - 1 |->
        LET q == CHOOSE c \in Quads(nn) :
                     WrittenBy(QuadWrites(c[1], c[2], nn), s) >= 0
        IN  WrittenBy(QuadWrites(q[1], q[2], nn), s)]
BuiltColors(nn) ==
    [s \in 0 .. nn * nn - 1 |->
        LET c == CHOOSE p \in Points(nn) : VertexSlot(p[1], p[2], nn) = s
        IN  CellColor(c[1], c[2])]

Sheet(nn) == [p \in Points(nn) |-> MassPoint(p[1], p[2], <<0, 0>>, nn)]

\* the module globals the kernel reads: the program's, and stiffness and
\* gravity both zero
Environments ==
    { [Y |-> SpringYDefault, g |-> Gravity], [Y |-> 0, g |-> Zero3] }

\* positions inside, at the centre of and on the sphere
InsidePositions ==
    { Vec(0, Lit(2, 10), 0), Vec(Lit(6, 100), Lit(8, 100), 0), Zero3,
      Vec(0, Lit(3, 10), 0) }

\* where one point of the sheet may lie: in place, on its next neighbour in
\* the row (coincident), or in the sphere
PlacesOf(p, nn) ==
    {Sheet(nn)[p]}
    \cup {Sheet(nn)[j] : j \in {c \in Points(nn) : c = <<p[1], p[2] + 1>>}}
    \cup InsidePositions

UniformVelocities == { Zero3, Vec(0, F(-1), 0), Vec(0, F(1), 0) }
OddVelocity == Vec(Lit(1, 2), 0, 0)

\* the state at a call of substep(): the sheet with one point of its first
\* row displaced, one common velocity with one point's velocity changed
InitSubstep ==
    \E nn \in 2 .. MaxN, env \in Environments, u \in UniformVelocities :
     \E p \in {c \in Points(nn) : c[1] = 0}, q \in Points(nn) :
      \E pos \in PlacesOf(p, nn), w \in {u, OddVelocity} :
        /\ n = nn
        /\ pc = "loop"
        /\ frame = 1
        /\ spring_Y = env.Y
        /\ gravity = env.g
        /\ ball_radius = BallRadiusDefault
        /\ substeps = 1
        /\ to_generate = FALSE
        /\ to_reset = FALSE
        /\ x = [Sheet(nn) EXCEPT ![p] = pos]
        /\ v = [[c \in Points(nn) |-> u] EXCEPT ![q] = w]
        /\ vertices = [s \in 0 .. nn * nn - 1 |-> Zero3]
        /\ indices = BuiltIndices(nn)
        /\ colors = BuiltColors(nn)
        /\ quadsDone = Quads(nn)
        /\ slotWrites = [s \in 0 .. num_triangles(nn) * 3 - 1 |-> 1]
        /\ k = 0
        /\ loopN = 1
        /\ done = {}
        /\ xStart = x
        /\ vStart = v
        /\ vSnap = v
        /\ forceUsed = ZeroField(nn)
        /\ vPre = v
        /\ pressedGen = FALSE
        /\ pressedReset = FALSE
        /\ phases = <<"edit">>
        /\ random_offset = <<0, 0>>
        /\ generated = TRUE

NextSubstep ==
    \/ SubstepGravity
    \/ \E i \in Points(n) : SpringPoint(i)
    \/ DragCollide

SpecSubstep == InitSubstep /\ [][NextSubstep]_vars

\* ============================================================ properties
Count(seq, e) == Cardinality({m \in 1 .. Len(seq) : seq[m] = e})
LastPhase == IF Len(phases) = 0 THEN "none" ELSE phases[Len(phases)]
Half == Lit(1, 2)
\* the unjittered coordinate of row or column c
Unjittered(c) == Sub(Mul(F(c), quad_size(n)), Half)
FiniteVec(a) == IsFinite(a[1]) /\ IsFinite(a[2]) /\ IsFinite(a[3])
SpringNeighbours(i) ==
    {j \in Points(n) : \E m \in 1 .. Len(spring_offsets) :
        j = <<i[1] + spring_offsets[m][1], i[2] + spring_offsets[m][2]>>}
\* the state reset() has just returned to: the substep loop is about to start
AfterReset == pc = "loop" /\ k = 0 /\ LastPhase = "reset"
\* the state a substep() call has just returned to
AfterSubstep == pc = "loop" /\ k >= 1 /\ LastPhase = "substep"

\* C1: after resetParameters(), spring_Y = 1e3, ball_radius = 0.3, and the
\* driver's substep count and the length of the next substep loop are the
\* default recomputed from dt.
ResetRestoresDefaults ==
    AfterReset =>
        /\ spring_Y = SpringYDefault
        /\ ball_radius = BallRadiusDefault
        /\ substeps = DefaultSubsteps(n)
        /\ loopN = DefaultSubsteps(n)

\* C2: the force a stage-2 iteration applies to point i is the force computed
\* from the positions and velocities as stage 1 left them, whatever the order
\* in which the iterations of stage 2 run.
StageTwoReadsSnapshot ==
    pc = "stage2" =>
        \A i \in done : forceUsed[i] = Force(i, xStart, vSnap, n, spring_Y)

\* C3: when the renderer reads the buffers, the frame has run, in this order,
\* the edits, the initialisation if Generate was clicked, the reset if Reset
\* was clicked, as many substeps as substeps held at loop entry, and one
\* vertex export; and vertices[i*n+j] is position[i,j].
ExpectedPhases ==
    <<"edit">>
    \o (IF pressedGen THEN <<"init">> ELSE <<>>)
    \o (IF pressedReset THEN <<"reset">> ELSE <<>>)
    \o [m \in 1 .. loopN |-> "substep"]
    \o <<"update">>
FrameOrder ==
    pc = "render" =>
        /\ phases = ExpectedPhases
        /\ loopN = substeps
        /\ k = loopN
        /\ \A p \in Points(n) : vertices[p[1] * n + p[2]] = x[p]
FrameOrderWitness ==
    /\ pc = "render"
    /\ pressedGen
    /\ pressedReset
    /\ loopN >= SubstepsMin
    /\ FiniteVec(x[<<0, 1>>])
    /\ x[<<0, 1>>] # x[<<1, 0>>]

\* C4: when the first substep of the first frame is about to run and Generate
\* was never clicked, the points lie on the flat sheet at y = 0.6 with one
\* shared jitter and zero velocity, and no two points coincide.
OnSheet ==
    \A p \in Points(n) :
        /\ v[p] = Zero3
        /\ x[p][2] = Lit(6, 10)
        /\ Sub(x[p][1], Unjittered(p[1])) = Sub(x[<<0, 0>>][1], Unjittered(0))
        /\ Sub(x[p][3], Unjittered(p[2])) = Sub(x[<<0, 0>>][3], Unjittered(0))
SheetBeforeFirstSubstep ==
    (frame = 1 /\ pc = "loop" /\ k = 0 /\ loopN > 0 /\ ~generated) =>
        /\ OnSheet
        /\ \A p \in Points(n), q \in Points(n) : p # q => x[p] # x[q]

\* C5: a stage-2 iteration of a point that coincides with a spring neighbour
\* leaves no NaN in its velocity, and the force it applies is the sum over
\* the other springs.
SpringStepSkipping(force, i, off, xs, vs, nn, Y) ==
    LET j == <<i[1] + off[1], i[2] + off[2]>>
    IN  IF InGrid(j, nn) /\ xs[i] = xs[j] THEN force
        ELSE SpringStep(force, i, off, xs, vs, nn, Y)
RECURSIVE ForceSkippingFrom(_, _, _, _, _, _, _)
ForceSkippingFrom(m, force, i, xs, vs, nn, Y) ==
    IF m > Len(spring_offsets) THEN force
    ELSE ForceSkippingFrom(m + 1,
             SpringStepSkipping(force, i, spring_offsets[m], xs, vs, nn, Y),
             i, xs, vs, nn, Y)
HasCoincidentNeighbour(i) == \E j \in SpringNeighbours(i) : x[i] = x[j]
CoincidentSpringSkipped ==
    pc = "stage2" =>
        \A i \in done :
            (/\ HasCoincidentNeighbour(i)
             /\ \A c \in Points(n) : FiniteVec(xStart[c]) /\ FiniteVec(vSnap[c]))
            => /\ ~HasNaN(v[i])
               /\ done = {i} =>
                    forceUsed[i]
                      = ForceSkippingFrom(1, Zero3, i, xStart, vSnap, n, spring_Y)

\* C6: in a frame, initialize_mass_points() runs once if Generate was clicked
\* in that frame and not at all otherwise, and likewise reset() and Reset: a
\* click is served in its own frame only.
OneShotTriggers ==
    /\ Count(phases, "init") <= (IF pressedGen THEN 1 ELSE 0)
    /\ Count(phases, "reset") <= (IF pressedReset THEN 1 ELSE 0)
    /\ pc \in {"loop", "stage2", "render"} =>
         /\ Count(phases, "init") = (IF pressedGen THEN 1 ELSE 0)
         /\ Count(phases, "reset") = (IF pressedReset THEN 1 ELSE 0)
OneShotTriggersWitness ==
    /\ pc = "render"
    /\ frame = 2
    /\ generated
    /\ ~pressedGen
    /\ ~pressedReset
    /\ Count(phases, "init") = 0

\* C7: right after initialize_mass_points(), whatever the fields held, every
\* velocity is zero, every y is 0.6, and x and z of every point are the
\* unjittered coordinates plus the one sampled jitter, each component of
\* which is within [-0.05, 0.05].
AfterInit == pc = "reset" /\ LastPhase = "init"
InitOverwrites ==
    AfterInit =>
        /\ \A p \in Points(n) :
             /\ v[p] = Zero3
             /\ x[p][2] = Lit(6, 10)
             /\ Sub(x[p][1], Unjittered(p[1])) = random_offset[1]
             /\ Sub(x[p][3], Unjittered(p[2])) = random_offset[2]
        /\ \A c \in 1 .. 2 :
             /\ Le(Lit(-5, 100), random_offset[c])
             /\ Le(random_offset[c], Lit(5, 100))
InitOverwritesWitness ==
    /\ AfterInit
    /\ frame = 2
    /\ k >= SubstepsMin
    /\ random_offset[1] # random_offset[2]

\* C8: when initialize_mesh_indices() has run, indices holds 6*(n-1)^2
\* integers, each written once and each in [0, n*n); the six of quad (i, j)
\* are (idx(i,j), idx(i+1,j), idx(i,j+1)) and (idx(i+1,j+1), idx(i,j+1),
\* idx(i+1,j)) with idx(i,j) = i*n+j, so both triangles hold the diagonal
\* (idx(i,j+1), idx(i+1,j)).  While it runs no slot is written twice.
MeshIndicesBuilt ==
    /\ \A s \in DOMAIN slotWrites : slotWrites[s] <= 1
    /\ pc = "gui" =>
         /\ Cardinality(DOMAIN indices) = 6 * (n - 1) * (n - 1)
         /\ \A s \in DOMAIN indices :
              slotWrites[s] = 1 /\ indices[s] >= 0 /\ indices[s] < n * n
         /\ \A q \in Quads(n) :
              LET b == 6 * (q[1] * (n - 1) + q[2])
                  i == q[1]
                  j == q[2]
              IN  /\ <<indices[b], indices[b + 1], indices[b + 2]>>
                       = <<i * n + j, (i + 1) * n + j, i * n + (j + 1)>>
                  /\ <<indices[b + 3], indices[b + 4], indices[b + 5]>>
                       = <<(i + 1) * n + (j + 1), i * n + (j + 1), (i + 1) * n + j>>
                  /\ {indices[b + 1], indices[b + 2]}
                       = {indices[b + 4], indices[b + 5]}
MeshIndicesBuiltWitness ==
    /\ pc = "gui"
    /\ n >= 3
    /\ quadsDone = Quads(n)

\* C9: in the collision response of a substep, a point strictly inside the
\* sphere whose velocity points straight at the centre ends with no velocity
\* along the normal; a point inside that moves away from the centre, or a
\* point outside, keeps its velocity; and the position changes by dt times
\* the final velocity only.
\* vel = -c * offset for some c > 0, decided in exact integer arithmetic
PointsAtCentre(vel, offset) ==
    /\ \A c \in 1 .. 3 : IsSmall(vel[c]) /\ IsSmall(offset[c])
    /\ vel[1] * offset[2] = vel[2] * offset[1]
    /\ vel[2] * offset[3] = vel[3] * offset[2]
    /\ vel[1] * offset[3] = vel[3] * offset[1]
    /\ vel[1] * offset[1] + vel[2] * offset[2] + vel[3] * offset[3] < 0
CollisionProjection ==
    AfterSubstep =>
        \A p \in Points(n) :
            LET offset == VSub(xStart[p], ball_center)
                normal == Normalized(offset)
            IN  /\ (Lt(Norm(offset), ball_radius) /\ PointsAtCentre(vPre[p], offset))
                     => Dot(v[p], normal) = 0
                /\ (Le(Norm(offset), ball_radius) /\ Le(0, Dot(vPre[p], normal)))
                     => v[p] = vPre[p]
                /\ Lt(ball_radius, Norm(offset)) => v[p] = vPre[p]
                /\ x[p] = VAdd(xStart[p], VScale(v[p], dt(n)))
CollisionProjectionWitness ==
    /\ AfterSubstep
    /\ \E p \in Points(n) :
         /\ Lt(Norm(VSub(xStart[p], ball_center)), ball_radius)
         /\ PointsAtCentre(vPre[p], VSub(xStart[p], ball_center))
         /\ v[p] # vPre[p]

\* C10: one substep with spring_Y = 0, zero gravity and every point outside
\* the sphere multiplies every velocity by exp(-drag_damping*dt) and changes
\* it in no other way, for any initial velocities.
DragOnlyCase ==
    /\ AfterSubstep
    /\ spring_Y = 0
    /\ gravity = Zero3
    /\ \A p \in Points(n) : Lt(ball_radius, Norm(VSub(xStart[p], ball_center)))
Decayed(vel) == VScale(vel, Exp(Mul(Neg(F(drag_damping)), dt(n))))
NoRelativeMotion ==
    \A p \in Points(n) : \A j \in SpringNeighbours(p) :
        vStart[p] = vStart[j] /\ xStart[p] # xStart[j]
====
